---- MODULE Spec2Model ----
(***************************************************************************)
(* Message classification on a durable workflow engine.                    *)
(*                                                                         *)
(*   worker     part_000 (run): validates the LLM configuration, then      *)
(*              serves workflows and activities.                           *)
(*   registry   llm-config.ts (LLMProviderManager, classificationSchema).  *)
(*   activity   workflows.ts:108-216 (classifyMessage).                    *)
(*   workflows  workflows.ts:31-87, under the retry policy of lines 6-14.  *)
(*                                                                         *)
(* Strings are sequences of characters.  A message is written over the     *)
(* characters "s" (a space) and the letter "a".          A model response is *)
(* written over the tokens of ResponseTokens: the two braces, a prose      *)
(* word, and one token per JSON member the classification schema knows.    *)
(***************************************************************************)
EXTENDS Integers, Sequences, FiniteSets, TLC

VARIABLES env, worker, wf, acts, order

vars == <<env, worker, wf, acts, order>>

(***************************************************************************)
(* Bounds of the model.                                                    *)
(***************************************************************************)
MaxLen == 6        \* longest model response, in tokens
MaxBatch == 2      \* longest batch handed to the batch workflow

(***************************************************************************)
(* Requests (part_001:3-7).  A request may be null, and its message may be *)
(* undefined; both are falsy in the checks of the source.                  *)
(***************************************************************************)
Messages == {<<>>, <<"s">>, <<"a">>, <<"s", "a">>}

NullRequest == [isNull |-> TRUE, hasMessage |-> FALSE, message |-> <<>>]

NoMessageRequest == [isNull |-> FALSE, hasMessage |-> FALSE, message |-> <<>>]

Req(m) == [isNull |-> FALSE, hasMessage |-> TRUE, message |-> m]

\* !request.message : undefined and "" are falsy
MessageFalsy(request) == ~request.hasMessage \/ Len(request.message) = 0

RECURSIVE trimStart(_)
trimStart(m) ==
  IF m # <<>> /\ Head(m) = "s" THEN trimStart(Tail(m)) ELSE m

RECURSIVE trimEnd(_)
trimEnd(m) ==
  IF m # <<>> /\ m[Len(m)] = "s" THEN trimEnd(SubSeq(m, 1, Len(m) - 1)) ELSE m

\* String.prototype.trim
trim(m) == trimEnd(trimStart(m))

(***************************************************************************)
(* Environment and provider registry (llm-config.ts:26-110).  A variable   *)
(* that is unset or empty is falsy; LLM_PROVIDER = "" stands for both.     *)
(***************************************************************************)
Envs ==
  [LLM_PROVIDER : {"", "openai", "lmstudio", "other"},
   OPENAI_API_KEY : BOOLEAN,
   LMSTUDIO_BASE_URL : BOOLEAN]

getAvailableProviders(e) ==
  (IF e.OPENAI_API_KEY THEN {"openai"} ELSE {})
    \cup (IF e.LMSTUDIO_BASE_URL THEN {"lmstudio"} ELSE {})

\* the providers the registry is built from; the constructor throws on none
createRegistry(e) ==
  (IF e.OPENAI_API_KEY THEN {"openai"} ELSE {})
    \cup (IF e.LMSTUDIO_BASE_URL THEN {"lmstudio"} ELSE {})

RegistryConstructed(e) == createRegistry(e) # {}

validateConfiguration(e) ==
  LET availableProviders == getAvailableProviders(e)
      selectedProvider == e.LLM_PROVIDER
      errors ==
        (IF availableProviders = {} THEN {"none configured"} ELSE {})
        \cup (IF selectedProvider # "" /\ selectedProvider \notin availableProviders
              THEN {"selected not available"} ELSE {})
        \cup (IF selectedProvider = "openai" /\ ~e.OPENAI_API_KEY
              THEN {"OPENAI_API_KEY is not set"} ELSE {})
        \cup (IF selectedProvider = "lmstudio" /\ ~e.LMSTUDIO_BASE_URL
              THEN {"LMSTUDIO_BASE_URL is not set"} ELSE {})
  IN [isValid |-> errors = {}, errors |-> errors]

\* process.env.LLM_PROVIDER || 'openai'
SelectedProvider(e) == IF e.LLM_PROVIDER # "" THEN e.LLM_PROVIDER ELSE "openai"

\* getModel: registry.languageModel throws for a provider the registry lacks
getModelOk(e) == SelectedProvider(e) \in createRegistry(e)

(***************************************************************************)
(* Model responses and the classification schema (llm-config.ts:117-122).  *)
(* Tokens: "{" "}" braces, "w" a prose word, and JSON members              *)
(*   "o"  "isOffensive": true      "c"  "confidence": 0.5                  *)
(*   "r"  "reasoning": "..."       "x"  "confidence": 1.5                  *)
(* Confidence is kept in tenths.                                           *)
(***************************************************************************)
ResponseTokens == {"{", "}", "w", "o", "c", "x", "r"}

MemberTokens == {"o", "c", "x", "r"}

Texts(n) == UNION {[1..k -> ResponseTokens] : k \in 0..n}

EmptyObject == [has |-> {}, isOffensive |-> FALSE, confidence |-> 0]

Member(obj, t) ==
  CASE t = "o" -> [obj EXCEPT !.has = @ \cup {"isOffensive"}, !.isOffensive = TRUE]
    [] t = "c" -> [obj EXCEPT !.has = @ \cup {"confidence"}, !.confidence = 5]
    [] t = "x" -> [obj EXCEPT !.has = @ \cup {"confidence"}, !.confidence = 15]
    [] t = "r" -> [obj EXCEPT !.has = @ \cup {"reasoning"}]

RECURSIVE Members(_, _)
Members(obj, s) ==
  IF s = <<>> THEN obj ELSE Members(Member(obj, Head(s)), Tail(s))

\* text.match(/\{[\s\S]*\}/): from the first "{" to the last "}" after it
Opens(text) == {i \in 1..Len(text) : text[i] = "{"}

Closes(text) == {i \in 1..Len(text) : text[i] = "}"}

Min(S) == CHOOSE i \in S : \A j \in S : i <= j

Max(S) == CHOOSE i \in S : \A j \in S : j <= i

jsonMatchFound(text) ==
  Opens(text) # {} /\ \E j \in Closes(text) : j > Min(Opens(text))

\* a variant that starts the match at the last "{"
jsonMatchFromLastOpen(text) == SubSeq(text, Max(Opens(text)), Max(Closes(text)))

jsonMatch(text) == SubSeq(text, Min(Opens(text)), Max(Closes(text)))

\* JSON.parse of a string that starts with "{" : an object of members, or a
\* SyntaxError; a later member of the same key replaces the earlier one
JSONparseOk(s) ==
  /\ Len(s) >= 2
  /\ s[1] = "{"
  /\ s[Len(s)] = "}"
  /\ \A i \in 2..(Len(s) - 1) : s[i] \in MemberTokens

JSONparse(s) == Members(EmptyObject, SubSeq(s, 2, Len(s) - 1))

\* classificationSchema.parse
ConfidenceMax == 10

classificationSchemaOk(obj) ==
  /\ obj.has = {"isOffensive", "confidence", "reasoning"}
  /\ obj.confidence >= 0
  /\ obj.confidence <= ConfidenceMax

(***************************************************************************)
(* Errors (part_001:32-52) and results (part_001:9-17).  An error keeps    *)
(* its class name, the throw site that made it, the request it carries,    *)
(* the response text its message embeds and the class of its cause.        *)
(***************************************************************************)
NoError ==
  [name |-> "none", site |-> "none", hasRequest |-> FALSE, request |-> NullRequest,
   embedsResponse |-> FALSE, response |-> <<>>, cause |-> "none"]

ClassificationError(site, request, cause) ==
  [name |-> "ClassificationError", site |-> site, hasRequest |-> TRUE,
   request |-> request, embedsResponse |-> FALSE, response |-> <<>>, cause |-> cause]

\* `Failed to parse LM Studio response: ... Response was: ${result.text}`
ParseError(request, text, cause) ==
  [ClassificationError("parse", request, cause)
     EXCEPT !.embedsResponse = TRUE, !.response = text]

LLMProviderError(site) ==
  [name |-> "LLMProviderError", site |-> site, hasRequest |-> FALSE,
   request |-> NullRequest, embedsResponse |-> FALSE, response |-> <<>>,
   cause |-> "NoSuchProviderError"]

NoResult ==
  [message |-> <<>>, isOffensive |-> FALSE, confidence |-> 0, reasoning |-> FALSE,
   provider |-> "none", model |-> "none"]

\* process.env.DEFAULT_MODEL || 'gpt-4o-mini' ; DEFAULT_MODEL is left unset
modelName == "gpt-4o-mini"

classificationResult(request, data, provider) ==
  [message |-> request.message,
   isOffensive |-> data.isOffensive,
   confidence |-> data.confidence,
   reasoning |-> "reasoning" \in data.has,
   provider |-> provider,
   model |-> modelName]

(***************************************************************************)
(* What one outbound model call answers.  generateText returns a text or   *)
(* throws; generateObject returns an object that satisfies the schema or   *)
(* throws, and the message of what it throws may mention the schema.       *)
(***************************************************************************)
NoReply ==
  [kind |-> "none", schemaMsg |-> FALSE, text |-> <<>>, object |-> EmptyObject]

Thrown(schemaMsg) ==
  [kind |-> "thrown", schemaMsg |-> schemaMsg, text |-> <<>>, object |-> EmptyObject]

TextReply(t) ==
  [kind |-> "text", schemaMsg |-> FALSE, text |-> t, object |-> EmptyObject]

ObjectReply(o) ==
  [kind |-> "object", schemaMsg |-> FALSE, text |-> <<>>, object |-> o]

AllMembers == {"isOffensive", "confidence", "reasoning"}

SchemaObjects ==
  {[has |-> AllMembers, isOffensive |-> TRUE, confidence |-> ConfidenceMax],
   [has |-> AllMembers, isOffensive |-> FALSE, confidence |-> 0]}

ThrownReplies == {Thrown(b) : b \in BOOLEAN}

ObjectReplies == {ObjectReply(o) : o \in SchemaObjects} \cup ThrownReplies

TextReplies(T) == {TextReply(t) : t \in T} \cup ThrownReplies

\* the responses the workflows are run against
SampleTexts ==
  {<<"w", "{", "o", "c", "r", "}">>, <<"{", "o", "c", "}">>, <<"w">>}

(***************************************************************************)
(* classifyMessage (workflows.ts:108-216), as a function of the request,   *)
(* the environment and the answer of the model call it may make.           *)
(***************************************************************************)
Failure(e, calls, call) ==
  [kind |-> "error", result |-> NoResult, error |-> e, calls |-> calls, call |-> call]

Success(r, calls, call) ==
  [kind |-> "result", result |-> r, error |-> NoError, calls |-> calls, call |-> call]

\* a variant that wraps the error but does not attach it as the cause
wrapErrorNoCause(request, schemaMsg, cause) ==
  IF schemaMsg
  THEN ClassificationError("validation", request, "none")
  ELSE ClassificationError("generic", request, "none")

\* the catch block, lines 192-215, for an error that is neither domain type;
\* what the model calls and the property access throw are Error instances
wrapError(request, schemaMsg, cause) ==
  IF schemaMsg
  THEN ClassificationError("validation", request, cause)
  ELSE ClassificationError("generic", request, cause)

\* a variant that forgets the trim of line 111
inputRejectedNoTrim(request) == MessageFalsy(request)

\* lines 111-113
inputRejected(request) ==
  MessageFalsy(request) \/ Len(trim(request.message)) = 0

\* a variant that answers a parse failure with a default classification
parseFailureFallback(request, text, cause) ==
  Success([NoResult EXCEPT !.message = request.message], 1, "generateText")

\* a variant that asks the model once more before it gives up
parseFailureRetried(request, text, cause) ==
  Failure(ParseError(request, text, cause), 2, "generateText")

\* lines 152-158: the catch of the free-text branch
parseFailure(request, text, cause) ==
  Failure(ParseError(request, text, cause), 1, "generateText")

\* lines 143-158: the free-text branch after generateText returned
parseResponse(request, text, provider) ==
  IF ~jsonMatchFound(text)
  THEN parseFailure(request, text, "Error")
  ELSE IF ~JSONparseOk(jsonMatch(text))
  THEN parseFailure(request, text, "SyntaxError")
  ELSE IF ~classificationSchemaOk(JSONparse(jsonMatch(text)))
  THEN parseFailure(request, text, "ZodError")
  ELSE Success(classificationResult(request, JSONparse(jsonMatch(text)), provider),
               1, "generateText")

\* which model call the invocation makes, if it gets that far (lines 111-171)
modelCall(request, e) ==
  IF request.isNull \/ inputRejected(request) \/ ~getModelOk(e) THEN "none"
  ELSE IF SelectedProvider(e) = "lmstudio" THEN "generateText"
  ELSE "generateObject"

classifyMessage(request, e, reply) ==
  IF request.isNull
  THEN Failure(wrapError(request, FALSE, "TypeError"), 0, "none")
  ELSE IF inputRejected(request)
  THEN Failure(ClassificationError("empty", request, "none"), 0, "none")
  ELSE IF ~getModelOk(e)
  THEN Failure(LLMProviderError("getModel"), 0, "none")
  ELSE IF SelectedProvider(e) = "lmstudio"
  THEN IF reply.kind = "thrown"
       THEN Failure(wrapError(request, reply.schemaMsg, "Error"), 1, "generateText")
       ELSE parseResponse(request, reply.text, SelectedProvider(e))
  ELSE IF reply.kind = "thrown"
       THEN Failure(wrapError(request, reply.schemaMsg, "Error"), 1, "generateObject")
       ELSE Success(classificationResult(request, reply.object, SelectedProvider(e)),
                    1, "generateObject")

\* the answers the call of an invocation can get
Replies(call, T) ==
  IF call = "generateText" THEN TextReplies(T)
  ELSE IF call = "generateObject" THEN ObjectReplies
  ELSE {NoReply}

(***************************************************************************)
(* The engine's view of one activity call, under the retry policy of       *)
(* proxyActivities (workflows.ts:6-14).                                    *)
(***************************************************************************)
maximumAttempts == 3

NoOutcome == Failure(NoError, 0, "none")

TimeoutFailure ==
  [name |-> "TimeoutFailure", site |-> "startToClose", hasRequest |-> FALSE,
   request |-> NullRequest, embedsResponse |-> FALSE, response |-> <<>>,
   cause |-> "none"]

Scheduled(attempt, calls) ==
  [state |-> "SCHEDULED", attempt |-> attempt, call |-> "none", calls |-> calls,
   reply |-> NoReply, outcome |-> NoOutcome]

\* a variant that never retries
retryableNever(attempt) == FALSE

\* a variant that grants one attempt too many
retryableOneMore(attempt) == attempt <= maximumAttempts

\* a failed attempt is retried while the attempt budget lasts
retryable(attempt) == attempt < maximumAttempts

Settled(a) == a.state \in {"SUCCEEDED", "FAILED_TERMINAL"}

(***************************************************************************)
(* Workflows (workflows.ts:31-87).                                         *)
(***************************************************************************)
ValidationError(site) ==
  [name |-> "Error", site |-> site, hasRequest |-> FALSE, request |-> NullRequest,
   embedsResponse |-> FALSE, response |-> <<>>, cause |-> "none"]

Requests == {NullRequest, NoMessageRequest} \cup {Req(m) : m \in Messages}

BatchMembers == {Req(m) : m \in Messages}

Batches == UNION {[1..n -> BatchMembers] : n \in 0..MaxBatch}

Submitted(kind, isNull, requests) ==
  [kind |-> kind, isNull |-> isNull, requests |-> requests, status |-> "submitted",
   output |-> <<>>, failure |-> NoError]

Workflows ==
  {Submitted("classifyOne", FALSE, <<r>>) : r \in Requests}
    \cup {Submitted("classifyBatch", FALSE, b) : b \in Batches}
    \cup {Submitted("classifyBatch", TRUE, <<>>)}

\* a variant that checks the request but not its message
oneRejectedNullOnly(w) == w.requests[1].isNull

\* line 35: !request || !request.message
oneRejected(w) == w.requests[1].isNull \/ MessageFalsy(w.requests[1])

\* line 68: !requests || requests.length === 0
batchRejected(w) == w.isNull \/ Len(w.requests) = 0

\* Promise.all over the activity calls, in the order they settled
Rejections(as, ord) == {k \in 1..Len(ord) : as[ord[k]].state = "FAILED_TERMINAL"}

promiseRejected(as, ord) == Rejections(as, ord) # {}

\* a variant that reports the failed member of the lowest position
promiseReasonLowestPosition(as, ord) ==
  as[Min({i \in 1..Len(as) : as[i].state = "FAILED_TERMINAL"})].outcome.error

promiseReason(as, ord) == as[ord[Min(Rejections(as, ord))]].outcome.error

promiseFulfilled(as, ord) ==
  /\ Len(as) > 0
  /\ \A i \in 1..Len(as) : as[i].state = "SUCCEEDED"

\* a variant that collects the values in the order the calls settled
promiseValuesAsSettled(as, ord) == [k \in 1..Len(ord) |-> as[ord[k]].outcome.result]

promiseValues(as, ord) == [i \in 1..Len(as) |-> as[i].outcome.result]

(***************************************************************************)
(* Actions.                                                                *)
(***************************************************************************)
Init ==
  /\ env \in Envs
  /\ worker = "loading"
  /\ wf \in Workflows
  /\ acts = <<>>
  /\ order = <<>>

\* part_000:11-41, after the import of llm-config has built the registry
WorkerStart ==
  /\ worker = "loading"
  /\ worker' = IF RegistryConstructed(env) /\ validateConfiguration(env).isValid
               THEN "serving" ELSE "exited"
  /\ UNCHANGED <<env, wf, acts, order>>

\* messageClassificationWorkflow up to its await (lines 31-44)
ClassifyOneStart ==
  /\ worker = "serving"
  /\ wf.kind = "classifyOne"
  /\ wf.status = "submitted"
  /\ IF oneRejected(wf)
     THEN /\ wf' = [wf EXCEPT !.status = "failed",
                              !.failure = ValidationError("classifyOne")]
          /\ acts' = acts
     ELSE /\ wf' = [wf EXCEPT !.status = "awaiting"]
          /\ acts' = <<Scheduled(1, 0)>>
  /\ UNCHANGED <<env, worker, order>>

\* batchMessageClassificationWorkflow up to its await (lines 65-78)
ClassifyBatchStart ==
  /\ worker = "serving"
  /\ wf.kind = "classifyBatch"
  /\ wf.status = "submitted"
  /\ IF batchRejected(wf)
     THEN /\ wf' = [wf EXCEPT !.status = "failed",
                              !.failure = ValidationError("classifyBatch")]
          /\ acts' = acts
     ELSE /\ wf' = [wf EXCEPT !.status = "awaiting"]
          /\ acts' = [i \in 1..Len(wf.requests) |-> Scheduled(1, 0)]
  /\ UNCHANGED <<env, worker, order>>

\* a worker takes the attempt and runs classifyMessage up to its await
ActStart(i) ==
  /\ worker = "serving"
  /\ wf.status = "awaiting"
  /\ acts[i].state = "SCHEDULED"
  /\ LET call == modelCall(wf.requests[i], env)
     IN acts' = [acts EXCEPT ![i].state = "RUNNING", ![i].call = call]
  /\ UNCHANGED <<env, worker, wf, order>>

\* calls counts the model calls of the attempts that have ended
Finished(a, reply, outcome) ==
  [a EXCEPT !.state = IF outcome.kind = "result" THEN "SUCCEEDED"
                      ELSE IF retryable(a.attempt) THEN "FAILED_RETRYABLE"
                      ELSE "FAILED_TERMINAL",
            !.call = "none",
            !.calls = @ + outcome.calls,
            !.reply = reply,
            !.outcome = outcome]

\* the attempt ends: classifyMessage returns or throws
ActFinish(i, T) ==
  /\ wf.status = "awaiting"
  /\ acts[i].state = "RUNNING"
  /\ \E reply \in Replies(acts[i].call, T) :
       LET a == Finished(acts[i], reply, classifyMessage(wf.requests[i], env, reply))
       IN /\ acts' = [acts EXCEPT ![i] = a]
          /\ order' = IF Settled(a) THEN Append(order, i) ELSE order
  /\ UNCHANGED <<env, worker, wf>>

\* startToCloseTimeout: the attempt is still waiting for the model
ActTimeout(i) ==
  /\ wf.status = "awaiting"
  /\ acts[i].state = "RUNNING"
  /\ acts[i].call # "none"
  /\ LET a == Finished(acts[i], NoReply, Failure(TimeoutFailure, 1, acts[i].call))
     IN /\ acts' = [acts EXCEPT ![i] = a]
        /\ order' = IF Settled(a) THEN Append(order, i) ELSE order
  /\ UNCHANGED <<env, worker, wf>>

\* the backoff interval has passed: the next attempt is scheduled
ActRetry(i) ==
  /\ wf.status = "awaiting"
  /\ acts[i].state = "FAILED_RETRYABLE"
  /\ acts' = [acts EXCEPT ![i] = Scheduled(acts[i].attempt + 1, acts[i].calls)]
  /\ UNCHANGED <<env, worker, wf, order>>

\* a variant whose catch answers a failed activity with a placeholder result
ClassifyOneResumeSwallows ==
  /\ worker = "serving"
  /\ wf.kind = "classifyOne"
  /\ wf.status = "awaiting"
  /\ Settled(acts[1])
  /\ wf' = [wf EXCEPT !.status = "completed",
                      !.output = <<acts[1].outcome.result>>]
  /\ UNCHANGED <<env, worker, acts, order>>

\* messageClassificationWorkflow after its await (lines 44-54)
ClassifyOneResume ==
  /\ worker = "serving"
  /\ wf.kind = "classifyOne"
  /\ wf.status = "awaiting"
  /\ \/ /\ acts[1].state = "SUCCEEDED"
        /\ wf' = [wf EXCEPT !.status = "completed",
                            !.output = <<acts[1].outcome.result>>]
     \/ /\ acts[1].state = "FAILED_TERMINAL"
        /\ wf' = [wf EXCEPT !.status = "failed",
                            !.failure = acts[1].outcome.error]
  /\ UNCHANGED <<env, worker, acts, order>>

\* batchMessageClassificationWorkflow after its await (lines 76-86)
ClassifyBatchResume ==
  /\ worker = "serving"
  /\ wf.kind = "classifyBatch"
  /\ wf.status = "awaiting"
  /\ \/ /\ promiseRejected(acts, order)
        /\ wf' = [wf EXCEPT !.status = "failed",
                            !.failure = promiseReason(acts, order)]
     \/ /\ ~promiseRejected(acts, order)
        /\ promiseFulfilled(acts, order)
        /\ wf' = [wf EXCEPT !.status = "completed",
                            !.output = promiseValues(acts, order)]
  /\ UNCHANGED <<env, worker, acts, order>>

Next ==
  \/ WorkerStart
  \/ ClassifyOneStart
  \/ ClassifyBatchStart
  \/ \E i \in 1..Len(acts) : ActStart(i)
  \/ \E i \in 1..Len(acts) : ActFinish(i, SampleTexts)
  \/ \E i \in 1..Len(acts) : ActTimeout(i)
  \/ \E i \in 1..Len(acts) : ActRetry(i)
  \/ ClassifyOneResume
  \/ ClassifyBatchResume

Spec == Init /\ [][Next]_vars

(***************************************************************************)
(* One attempt of classifyMessage on a serving worker, against every model *)
(* response of up to MaxLen tokens.                                        *)
(***************************************************************************)
AttemptMessages == {<<"s">>, <<"a">>}

InitAttempt ==
  /\ env \in {e \in Envs : RegistryConstructed(e) /\ validateConfiguration(e).isValid}
  /\ worker = "serving"
  /\ wf \in {[Submitted("classifyOne", FALSE, <<Req(m)>>) EXCEPT !.status = "awaiting"] :
               m \in AttemptMessages}
  /\ acts = <<Scheduled(1, 0)>>
  /\ order = <<>>

NextAttempt ==
  \/ ActStart(1)
  \/ ActFinish(1, Texts(MaxLen))

SpecAttempt == InitAttempt /\ [][NextAttempt]_vars

(***************************************************************************)
(* Properties.                                                             *)
(***************************************************************************)
Blank(m) == \A k \in 1..Len(m) : m[k] = "s"

Ended(a) == a.state \in {"SUCCEEDED", "FAILED_RETRYABLE", "FAILED_TERMINAL"}

Closed == wf.status \in {"completed", "failed"}

\* C1: an activity call whose request has an empty or whitespace-only
\* message never has a model call in flight, has made no model call in any
\* attempt, never succeeds, and each attempt that ended ended with a
\* ClassificationError raised before any generateText or generateObject.
C1_BlankMessageFailsWithoutModelCall ==
  \A i \in 1..Len(acts) :
    (~wf.requests[i].hasMessage \/ Blank(wf.requests[i].message)) =>
      /\ acts[i].call = "none"
      /\ acts[i].calls = 0
      /\ acts[i].state # "SUCCEEDED"
      /\ Ended(acts[i]) =>
           /\ acts[i].outcome.kind = "error"
           /\ acts[i].outcome.error.name = "ClassificationError"
           /\ acts[i].outcome.calls = 0
           /\ acts[i].outcome.call = "none"

\* C1 witness: a whitespace-only message has been through every attempt.
C1_Witness ==
  \E i \in 1..Len(acts) :
    /\ wf.requests[i].message = <<"s">>
    /\ acts[i].state = "FAILED_TERMINAL"
    /\ acts[i].outcome.error.site = "empty"

\* C2: for a non-empty message, an attempt of classifyMessage that ended
\* (other than by the engine's timeout) either returned a result that
\* carries the input message verbatim and a confidence in [0,1], or threw a
\* ClassificationError; no other error type leaves the activity.
C2_ResultOrClassificationErrorOnly ==
  \A i \in 1..Len(acts) :
    (/\ Ended(acts[i])
     /\ wf.requests[i].hasMessage
     /\ Len(wf.requests[i].message) > 0
     /\ acts[i].outcome.error.name # "TimeoutFailure") =>
      \/ /\ acts[i].outcome.kind = "result"
         /\ acts[i].outcome.result.message = wf.requests[i].message
         /\ acts[i].outcome.result.confidence >= 0
         /\ acts[i].outcome.result.confidence <= 10
      \/ /\ acts[i].outcome.kind = "error"
         /\ acts[i].outcome.error.name = "ClassificationError"

\* C3: a classifyOne call never gets a 4th attempt and no attempt before
\* the 3rd fails terminally; once the workflow has ended, an activity that
\* succeeded (on attempt 3 in particular) has its result returned to the
\* caller, and an activity that failed on attempt 3 has exactly that
\* failure thrown to the caller.
C3_ThreeAttemptsThenLastFailure ==
  (wf.kind = "classifyOne" /\ Len(acts) = 1) =>
    /\ acts[1].attempt <= 3
    /\ acts[1].state = "FAILED_TERMINAL" => acts[1].attempt = 3
    /\ acts[1].state = "FAILED_RETRYABLE" => acts[1].attempt < 3
    /\ Closed => Settled(acts[1])
    /\ (Closed /\ acts[1].state = "SUCCEEDED") =>
         /\ wf.status = "completed"
         /\ wf.output = <<acts[1].outcome.result>>
         /\ wf.failure = NoError
    /\ (Closed /\ acts[1].state = "FAILED_TERMINAL") =>
         /\ wf.status = "failed"
         /\ wf.failure = acts[1].outcome.error
         /\ wf.output = <<>>

\* C3 witness: attempts 1 and 2 failed, attempt 3 succeeded, and the caller
\* has the result.
C3_Witness ==
  /\ wf.kind = "classifyOne"
  /\ wf.status = "completed"
  /\ Len(acts) = 1
  /\ acts[1].attempt = 3
  /\ acts[1].state = "SUCCEEDED"

\* C3, second case: three failed attempts, and the caller has the failure.
C3_WitnessExhausted ==
  /\ wf.kind = "classifyOne"
  /\ wf.status = "failed"
  /\ Len(acts) = 1
  /\ acts[1].attempt = 3
  /\ acts[1].state = "FAILED_TERMINAL"

\* C4: a batch that completed returns as many results as it had requests,
\* and the result at each position carries the message of the request at
\* that position, in whatever order the activity calls settled; a batch
\* with a member that failed terminally never completes and never holds a
\* list of results.
C4_BatchOrderedAndAllOrNothing ==
  wf.kind = "classifyBatch" =>
    /\ wf.status = "completed" =>
         /\ Len(wf.output) = Len(wf.requests)
         /\ Len(wf.output) > 0
         /\ \A i \in 1..Len(wf.requests) :
              /\ wf.output[i].message = wf.requests[i].message
              /\ wf.output[i] = acts[i].outcome.result
    /\ (\E i \in 1..Len(acts) : acts[i].state = "FAILED_TERMINAL") =>
         /\ wf.status # "completed"
         /\ wf.output = <<>>
    /\ wf.status = "failed" => wf.output = <<>>

\* C4 witness: a batch of two different messages completed, the second
\* member having settled before the first.
C4_Witness ==
  /\ wf.kind = "classifyBatch"
  /\ wf.status = "completed"
  /\ Len(wf.requests) = 2
  /\ wf.requests[1].message # wf.requests[2].message
  /\ order = <<2, 1>>

\* C4, second case: the second member failed terminally after the first
\* had succeeded, and the batch failed.
C4_WitnessFailed ==
  /\ wf.kind = "classifyBatch"
  /\ wf.status = "failed"
  /\ Len(acts) = 2
  /\ acts[1].state = "SUCCEEDED"
  /\ acts[2].state = "FAILED_TERMINAL"

\* C5: no activity call is ever scheduled for a request whose message is
\* empty, be it the request of classifyOne or a member of a batch: the
\* orchestrator rejects it and its number of attempts stays 0.
C5_EmptyMessageNeverDispatched ==
  \A i \in 1..Len(acts) :
    wf.requests[i].hasMessage /\ Len(wf.requests[i].message) > 0

\* C6: classifyOne with an absent request, an absent message or the empty
\* string, and classifyBatch with an absent or zero-length sequence, never
\* schedule an activity call, and once run have failed with the validation
\* error of the workflow.
C6_InvalidInputFailsBeforeScheduling ==
  (\/ /\ wf.kind = "classifyOne"
      /\ \/ wf.requests[1].isNull
         \/ ~wf.requests[1].hasMessage
         \/ wf.requests[1].message = <<>>
   \/ /\ wf.kind = "classifyBatch"
      /\ wf.isNull \/ wf.requests = <<>>) =>
    /\ acts = <<>>
    /\ order = <<>>
    /\ wf.status \in {"submitted", "failed"}
    /\ wf.status = "failed" =>
         /\ wf.failure.name = "Error"
         /\ wf.failure.site = wf.kind
         /\ wf.output = <<>>

\* C6 witness: classifyOne with the empty string has been rejected.
C6_Witness ==
  /\ wf.kind = "classifyOne"
  /\ wf.requests[1] = Req(<<>>)
  /\ wf.status = "failed"

\* C6, batch case: the empty batch has been rejected.
C6_WitnessBatch ==
  /\ wf.kind = "classifyBatch"
  /\ ~wf.isNull
  /\ wf.requests = <<>>
  /\ wf.status = "failed"

\* C7: a worker that serves has the provider classifyMessage selects
\* (LLM_PROVIDER, or "openai" when unset) among its available providers, and
\* no attempt ends with the LLMProviderError of a provider that is missing.
C7_ServingImpliesSelectedProviderAvailable ==
  worker = "serving" =>
    /\ (IF env.LLM_PROVIDER = "" THEN "openai" ELSE env.LLM_PROVIDER)
         \in getAvailableProviders(env)
    /\ \A i \in 1..Len(acts) : acts[i].outcome.error.name # "LLMProviderError"

\* C7, second half: a worker whose validation failed never serves.
C7_InvalidNeverServes ==
  ~validateConfiguration(env).isValid => worker # "serving"

\* A schema-valid JSON object occupies positions i..j of a response: braces
\* around members only, with isOffensive, reasoning and a confidence whose
\* last occurrence is the one in [0,1].
ObjectAt(text, i, j) ==
  /\ i < j
  /\ text[i] = "{"
  /\ text[j] = "}"
  /\ \A k \in (i + 1)..(j - 1) : text[k] \in {"o", "c", "x", "r"}
  /\ \E k \in (i + 1)..(j - 1) : text[k] = "o"
  /\ \E k \in (i + 1)..(j - 1) : text[k] = "r"
  /\ \E k \in (i + 1)..(j - 1) :
       text[k] = "c" /\ \A l \in (k + 1)..(j - 1) : text[l] # "x"

Spans(text) == (1..Len(text)) \X (1..Len(text))

\* the object is what lies between the first "{" and the last "}"
Outermost(text, i, j) ==
  /\ \A k \in 1..(i - 1) : text[k] # "{"
  /\ \A k \in (j + 1)..Len(text) : text[k] # "}"

C8_WitnessNoJson ==
  /\ Len(acts) = 1
  /\ acts[1].reply = TextReply(<<"w", "w">>)
  /\ acts[1].outcome.error.cause = "Error"

C8_WitnessSyntax ==
  /\ Len(acts) = 1
  /\ acts[1].reply = TextReply(<<"{", "w", "}">>)
  /\ acts[1].outcome.error.cause = "SyntaxError"

C8_WitnessRange ==
  /\ Len(acts) = 1
  /\ acts[1].reply = TextReply(<<"{", "o", "x", "r", "}">>)
  /\ acts[1].outcome.error.cause = "ZodError"

Extracted(a, request) ==
  /\ a.state = "SUCCEEDED"
  /\ a.outcome.kind = "result"
  /\ a.outcome.result.isOffensive = TRUE
  /\ a.outcome.result.confidence = 5
  /\ a.outcome.result.reasoning = TRUE
  /\ a.outcome.result.message = request.message

\* C9 as stated: a response that holds exactly one schema-valid JSON object,
\* whatever the prose around it, is extracted and the result has the
\* members of that object.
C9_OneObjectAnyProseExtracts ==
  \A n \in 1..Len(acts) :
    (/\ Ended(acts[n])
     /\ acts[n].reply.kind = "text"
     /\ Cardinality({p \in Spans(acts[n].reply.text) :
                       ObjectAt(acts[n].reply.text, p[1], p[2])}) = 1) =>
      Extracted(acts[n], wf.requests[n])

\* C9 amended: a response that holds exactly one schema-valid JSON object,
\* with no "{" in the prose before it and no "}" in the prose after it, is
\* extracted and the result has the members of that object.
C9_OneObjectOutermostExtracts ==
  \A n \in 1..Len(acts) :
    (/\ Ended(acts[n])
     /\ acts[n].reply.kind = "text"
     /\ Cardinality({p \in Spans(acts[n].reply.text) :
                       ObjectAt(acts[n].reply.text, p[1], p[2])}) = 1
     /\ \E p \in Spans(acts[n].reply.text) :
          /\ ObjectAt(acts[n].reply.text, p[1], p[2])
          /\ Outermost(acts[n].reply.text, p[1], p[2])) =>
      Extracted(acts[n], wf.requests[n])

\* C9 witness: the object follows prose that holds a "}" and is extracted.
C9_Witness ==
  /\ Len(acts) = 1
  /\ acts[1].reply = TextReply(<<"}", "{", "o", "c", "r", "}">>)
  /\ Extracted(acts[1], wf.requests[1])

\* C10: an activity call never has more than 3 attempts; its model calls
\* never outnumber its attempts; an attempt whose request has a message
\* that is not blank, on a worker whose registry has the selected provider,
\* makes exactly one model call (generateText or generateObject), and any
\* other attempt makes none.
C10_OneModelCallPerAttempt ==
  \A i \in 1..Len(acts) :
    LET a == acts[i]
        started == IF a.state = "SCHEDULED" THEN a.attempt - 1 ELSE a.attempt
        ended == IF a.state \in {"SCHEDULED", "RUNNING"} THEN a.attempt - 1
                 ELSE a.attempt
        inFlight == IF a.call = "none" THEN 0 ELSE 1
        passes ==
          /\ wf.requests[i].hasMessage
          /\ ~Blank(wf.requests[i].message)
          /\ (IF env.LLM_PROVIDER = "" THEN "openai" ELSE env.LLM_PROVIDER)
               \in getAvailableProviders(env)
    IN /\ a.attempt <= 3
       /\ a.calls + inFlight <= started
       /\ a.calls = (IF passes THEN ended ELSE 0)
       /\ inFlight = (IF passes /\ a.state = "RUNNING" THEN 1 ELSE 0)
       /\ Ended(a) =>
            /\ a.outcome.calls = (IF passes THEN 1 ELSE 0)
            /\ a.outcome.call \in
                 (IF passes THEN {"generateText", "generateObject"} ELSE {"none"})

\* C10 witness: three attempts of a classifyOne call ended, on the free-text
\* path, with three model calls made.
C10_Witness ==
  /\ wf.kind = "classifyOne"
  /\ Len(acts) = 1
  /\ acts[1].state = "FAILED_TERMINAL"
  /\ acts[1].outcome.error.site = "parse"
  /\ acts[1].calls = 3

C11_WitnessProviderError ==
  \E i \in 1..Len(acts) :
    /\ Ended(acts[i])
    /\ acts[i].outcome.error = LLMProviderError("getModel")

(***************************************************************************)
(* Cancellation.  The caller may cancel the workflow while it awaits its   *)
(* activity calls; the engine then schedules and retries nothing more for  *)
(* it.  classifyMessage hands no abort signal to generateText or           *)
(* generateObject (workflows.ts:134-140, 161-168) and never looks at the   *)
(* cancellation of its activity context, so an attempt that is running     *)
(* goes on until the model has answered.                                   *)
(***************************************************************************)
Cancel ==
  /\ wf.status = "awaiting"
  /\ wf' = [wf EXCEPT !.status = "cancelled"]
  /\ UNCHANGED <<env, worker, acts, order>>

\* the model call of a cancelled workflow runs to its end on the worker
ActOutlive(i) ==
  /\ wf.status = "cancelled"
  /\ acts[i].state = "RUNNING"
  /\ acts[i].call # "none"
  /\ acts' = [acts EXCEPT ![i].state = "ABANDONED",
                          ![i].call = "none",
                          ![i].calls = @ + 1]
  /\ UNCHANGED <<env, worker, wf, order>>

NextCancel ==
  \/ Next
  \/ Cancel
  \/ \E i \in 1..Len(acts) : ActOutlive(i)

SpecCancel == Init /\ [][NextCancel]_vars

\* C12: once the caller has cancelled the workflow, no model call is in
\* flight for any of its activity calls.
C12_CancelStopsModelCalls ==
  wf.status = "cancelled" => \A i \in 1..Len(acts) : acts[i].call = "none"

\* C12, the parts that hold: after the cancellation no attempt is started
\* or retried, and a member that had succeeded stays as it was.
C12_NoAttemptAfterCancel ==
  [][wf.status = "cancelled" =>
       \A i \in 1..Len(acts) :
         /\ acts'[i].attempt = acts[i].attempt
         /\ acts'[i].state # "SCHEDULED" \/ acts[i].state = "SCHEDULED"
         /\ acts[i].state # "RUNNING" => acts'[i] = acts[i]]_vars

\* One step of one activity call, as the state machine allows it.
Transition(a, b) ==
  \/ b = a
  \/ /\ a.state = "SCHEDULED"
     /\ b.state = "RUNNING"
     /\ b.attempt = a.attempt
  \/ /\ a.state = "RUNNING"
     /\ b.state = "SUCCEEDED"
     /\ b.attempt = a.attempt
     /\ b.outcome.kind = "result"
  \/ /\ a.state = "RUNNING"
     /\ b.state = "FAILED_RETRYABLE"
     /\ b.attempt = a.attempt
     /\ b.attempt < 3
     /\ b.outcome.kind = "error"
  \/ /\ a.state = "RUNNING"
     /\ b.state = "FAILED_TERMINAL"
     /\ b.attempt = a.attempt
     /\ b.attempt = 3
     /\ b.outcome.kind = "error"
  \/ /\ a.state = "FAILED_RETRYABLE"
     /\ b.state = "SCHEDULED"
     /\ b.attempt = a.attempt + 1

\* C13: an activity call starts SCHEDULED on attempt 1 and every step of it
\* is one of SCHEDULED -> RUNNING, RUNNING -> SUCCEEDED, RUNNING ->
\* FAILED_RETRYABLE (attempts 1 and 2 only), RUNNING -> FAILED_TERMINAL
\* (attempt 3 only) and FAILED_RETRYABLE -> SCHEDULED with the next attempt;
\* a failed attempt 1 or 2, the ClassificationError of the parse branch
\* included, is FAILED_RETRYABLE, and while the workflow awaits the call its
\* retry is enabled.
C13_ActivityStateMachine ==
  [][/\ acts = <<>> =>
          \A i \in 1..Len(acts') : acts'[i] = Scheduled(1, 0)
     /\ acts # <<>> =>
          /\ Len(acts') = Len(acts)
          /\ \A i \in 1..Len(acts) : Transition(acts[i], acts'[i])
     /\ \A i \in 1..Len(acts) :
          (/\ acts[i].state = "FAILED_RETRYABLE"
           /\ wf.status = "awaiting") => ENABLED ActRetry(i)
     /\ \A i \in 1..Len(acts') :
          (/\ acts'[i].outcome.error.site = "parse"
           /\ acts'[i].attempt < 3) => acts'[i].state = "FAILED_RETRYABLE"]_vars

\* C13 witness: the parse failure of attempt 1 led to attempt 2, whose parse
\* failure is retryable again.
C13_Witness ==
  \E i \in 1..Len(acts) :
    /\ acts[i].state = "FAILED_RETRYABLE"
    /\ acts[i].attempt = 2
    /\ acts[i].outcome.error.site = "parse"
    /\ acts[i].outcome.error.cause = "ZodError"

\* C14: a batch that passed its validation has exactly one activity call
\* per request, all of them scheduled in the one step that starts the
\* workflow, before any has run; a batch that failed through its members
\* reports the failure of the member that failed terminally first, whatever
\* its position.
C14_FanOutAndFirstRejection ==
  [][wf.kind = "classifyBatch" =>
       /\ (wf.status = "submitted" /\ wf'.status = "awaiting") =>
            /\ Len(acts') = Len(wf.requests)
            /\ \A i \in 1..Len(acts') : acts'[i] = Scheduled(1, 0)
       /\ wf.status = "awaiting" =>
            /\ Len(acts) = Len(wf.requests)
            /\ acts' # acts => Len(acts') = Len(acts)
       /\ (wf.status = "awaiting" /\ wf'.status = "failed") =>
            \E k \in 1..Len(order) :
              /\ acts[order[k]].state = "FAILED_TERMINAL"
              /\ \A j \in 1..(k - 1) : acts[order[j]].state # "FAILED_TERMINAL"
              /\ wf'.failure = acts[order[k]].outcome.error]_vars

\* C14 witness: both members failed terminally, the second one first and
\* with another error than the first, and the batch reports the second's.
C14_Witness ==
  /\ wf.kind = "classifyBatch"
  /\ wf.status = "failed"
  /\ Len(acts) = 2
  /\ order = <<2, 1>>
  /\ acts[1].state = "FAILED_TERMINAL"
  /\ acts[2].state = "FAILED_TERMINAL"
  /\ acts[1].outcome.error # acts[2].outcome.error
  /\ wf.failure = acts[2].outcome.error

(***************************************************************************)
(* The engine schedules fairly: a step that stays possible is taken.  The  *)
(* workflows run under fairness take their messages from one that passes   *)
(* the input check of the activity and one that does not.                  *)
(***************************************************************************)
FairMessages == {<<>>, <<"a">>}

FairWorkflows ==
  {w \in Workflows :
     \A i \in 1..Len(w.requests) :
       w.requests[i].hasMessage => w.requests[i].message \in FairMessages}

InitFair ==
  /\ env \in Envs
  /\ worker = "loading"
  /\ wf \in FairWorkflows
  /\ acts = <<>>
  /\ order = <<>>

SpecFair == InitFair /\ [][Next]_vars /\ WF_vars(Next)

\* C15: under fair scheduling, every workflow on a serving worker ends,
\* completed or failed; and a workflow that has ended with an activity call
\* that used up its 3 attempts has failed with that call's kind of failure
\* and holds no result, while a completed one holds the results of its
\* activity calls and nothing made up.
C15_TerminatesWithoutSwallowing ==
  /\ (worker = "serving") ~> Closed
  /\ [](Closed =>
          /\ (\E i \in 1..Len(acts) : acts[i].state = "FAILED_TERMINAL") =>
               /\ wf.status = "failed"
               /\ wf.output = <<>>
               /\ \E i \in 1..Len(acts) :
                    /\ acts[i].state = "FAILED_TERMINAL"
                    /\ acts[i].attempt = 3
                    /\ wf.failure = acts[i].outcome.error
          /\ wf.status = "completed" =>
               /\ Len(wf.output) = Len(acts)
               /\ \A i \in 1..Len(acts) :
                    /\ acts[i].state = "SUCCEEDED"
                    /\ wf.output[i] = acts[i].outcome.result
                    /\ wf.output[i] # NoResult)

\* C15 witness: a classifyOne whose activity failed three times has ended in
\* failure.
C15_Witness ==
  /\ wf.kind = "classifyOne"
  /\ wf.status = "failed"
  /\ Len(acts) = 1
  /\ acts[1].state = "FAILED_TERMINAL"
  /\ acts[1].attempt = 3
  /\ wf.failure = acts[1].outcome.error

====
